---- MODULE Spec2Model ----
(***************************************************************************)
(* Model of the mesh sub-element editing store (src/src/store/sceneStore.ts)*)
(* and of the edge derivation of the edit overlay                          *)
(* (src/src/components/Scene.tsx).                                         *)
(*                                                                         *)
(* Lengths are integers in units of half the coincidence tolerance         *)
(* (one unit = 0.00005), so that the tolerance 0.0001 of the code is       *)
(* Tolerance = 2 units and "distance < 0.0001" is DistSq < Tolerance^2.    *)
(* A THREE.Vector3 is a triple <<x, y, z>>; a vector read from outside a   *)
(* position buffer (getX gives undefined) is NaNVec: every distance to it  *)
(* is NaN and every comparison with it is false.                           *)
(* An optional record (T | null) is NULL == <<>> or <<record>>.            *)
(***************************************************************************)
EXTENDS Integers, Sequences, FiniteSets

VARIABLES
    objects,           \* sceneStore.ts:54  the entries {id, object, visible}
    selectedObject,    \* sceneStore.ts:55  THREE.Object3D | null
    editMode,          \* sceneStore.ts:57
    selectedElements,  \* sceneStore.ts:58  {vertices, edges, faces}
    draggedVertex,     \* sceneStore.ts:63
    draggedEdge,       \* sceneStore.ts:64
    position,          \* geometry.attributes.position of every mesh
    noop,              \* history: the last call or event left the store as it was
    owner,             \* history: the mesh on whose geometry each session began
    edits,             \* history: drag sessions begun and geometries rebuilt so far
    returned,          \* history: what the last call gave back to its caller
    dirty,             \* history: the mesh whose buffer the last call marked dirty
    normals,           \* the positions each mesh's vertex normals were computed from
    tris,              \* edge derivation: the triangle index list (geometry.index)
    uniqueEdges,       \* edge derivation: Scene.tsx:172 result
    edges,             \* edge derivation: Scene.tsx:557 Set, insertion order
    pc                 \* edge derivation: "input" or "derived"

vars == <<objects, selectedObject, editMode, selectedElements, draggedVertex,
          draggedEdge, position, noop, owner, edits, returned, dirty,
          normals, tris, uniqueEdges, edges, pc>>

storeVars == <<objects, selectedObject, editMode, selectedElements, draggedVertex,
               draggedEdge, position, noop, owner, edits, returned, dirty,
               normals>>

deriveVars == <<tris, uniqueEdges, edges, pc>>

-----------------------------------------------------------------------------
(* Bounds of the model *)

\* Number of edits in one run: drag sessions begun and geometries rebuilt.
MaxEdits == 2

\* Number of triangles of an index list given to the edge derivation.
MaxTris == 2

\* Number of entries the objects list holds at most.
MaxObjects == 3

-----------------------------------------------------------------------------
(* Values *)

NULL == <<>>

NaNVec == <<>>

\* a missing argument (the overlay calls startEdgeDrag without edgeIndex)
Undefined == -1

\* what a store operation of type (...) => void gives back to its caller
Void == "undefined"

Tolerance == 2

\* a.add(b): NaN components stay NaN
Add(a, b) ==
    IF a = NaNVec \/ b = NaNVec
    THEN NaNVec
    ELSE <<a[1] + b[1], a[2] + b[2], a[3] + b[3]>>

\* a.sub(b)
Sub(a, b) ==
    IF a = NaNVec \/ b = NaNVec
    THEN NaNVec
    ELSE <<a[1] - b[1], a[2] - b[2], a[3] - b[3]>>

DistSq(a, b) ==
    LET d == Sub(a, b) IN d[1] * d[1] + d[2] * d[2] + d[3] * d[3]

\* the comparison with <= for <
NearInclusive(a, b) ==
    /\ a # NaNVec
    /\ b # NaNVec
    /\ DistSq(a, b) <= Tolerance * Tolerance

\* v1.distanceTo(v2) < 0.0001
Near(a, b) ==
    /\ a # NaNVec
    /\ b # NaNVec
    /\ DistSq(a, b) < Tolerance * Tolerance

\* The objects of the scene: two meshes and one object that is no mesh.
Meshes == {"M1", "M2"}

Objects == Meshes \cup {"G"}

NoObject == "null"

\* a geometry that has been replaced and disposed of
Disposed == "disposed"

IsMesh(o) == o \in Meshes

\* the class of each mesh's geometry: M1 is a cylinder (THREE.CylinderGeometry),
\* M2 a plain THREE.BufferGeometry; the scene holds no sphere
GeometryKind(o) == IF o = "M1" THEN "cylinder" ELSE "buffer"

\* object.matrixWorld, a translation: M1 has been moved off the origin along
\* z, M2 stands at the origin
MatrixWorld(o) == IF o = "M1" THEN <<0, 0, 3>> ELSE <<0, 0, 0>>

ApplyMatrix4(v, o) == Add(v, MatrixWorld(o))

\* The vertex count a cylinder is rebuilt with (the selector's 32, 16 and 8
\* scaled down): a cylinder of n segments stands as n vertices, and the
\* cylinder of the scene, created with 4, is rebuilt with fewer.
VertexCounts == {3}

\* new THREE.CylinderGeometry(..., n, ...): the position buffer of a fresh
\* cylinder of n segments.  Vertex 1 is within the tolerance of vertex 0,
\* vertex 2 is exactly at the tolerance from vertex 0 and within it from
\* vertex 1, vertex 3 is far away.
CylinderPositions(n) ==
    [i \in 0..(n - 1) |-> CASE i = 0 -> <<0, 0, 0>>
                             [] i = 1 -> <<1, 0, 0>>
                             [] i = 2 -> <<2, 0, 0>>
                             [] OTHER -> <<0, 6, 0>>]

\* the index of a fresh cylinder of n segments: the fan of triangles
\* (0, k, k + 1)
CylinderIndex(n) ==
    IF n = 3 THEN <<0, 1, 2>> ELSE <<0, 1, 2, 0, 2, 3>>

\* new THREE.SphereGeometry(radius, n, n / 2, ...): the position buffer of
\* a fresh sphere, n vertices along the y axis
SpherePositions(n) == [i \in 0..(n - 1) |-> <<0, 4 * i, 0>>]

\* The position buffers the meshes are created with: M1 is a cylinder of 4
\* segments, M2 has two vertices at the same point.
InitialPosition(o) ==
    IF o = "M1"
    THEN CylinderPositions(4)
    ELSE [i \in 0..1 |-> <<0, 0, 0>>]

\* geometry.index of a mesh whose position buffer has count vertices: the
\* fan of a cylinder, none for M2 (geometry.index is null)
IndexArray(o, count) ==
    IF GeometryKind(o) = "cylinder" THEN <<CylinderIndex(count)>> ELSE NULL

\* the vertex counts a position buffer of the scene can have
Counts ==
    VertexCounts \cup {Cardinality(DOMAIN InitialPosition(o)) : o \in Meshes}

\* The local-space point a pointer move or the coordinate panel gives: it
\* is where vertex 2 of M1 starts, two units from vertex 0.
Targets == {<<2, 0, 0>>}

\* the store operations never read editMode: one mode stands for 'vertex',
\* 'edge', 'face' and 'normal'
EditModes == {"vertex", "null"}

\* positions.count
Count(buf) == Cardinality(DOMAIN buf)

\* positions.getX/getY/getZ(i)
GetXYZ(buf, i) == IF i \in DOMAIN buf THEN buf[i] ELSE NaNVec

\* the write spills over to the vertex after i
SetXYZSpilling(buf, i, v) ==
    [j \in DOMAIN buf |-> IF j = i \/ j = i + 1 THEN v ELSE buf[j]]

\* positions.setXYZ(i, x, y, z): a write outside the typed array is dropped
SetXYZ(buf, i, v) == IF i \in DOMAIN buf THEN [buf EXCEPT ![i] = v] ELSE buf

-----------------------------------------------------------------------------
(* The edge derivation of the overlay (EdgeLines), in its two versions *)

\* The vertex indices an index list is drawn from; 10 is the first index
\* whose decimal string has two characters.
IndexValues == {0, 1, 2, 3, 10}

\* the UTF-16 code units of the two separators
Comma == 44

Hyphen == 45

\* String(n), n >= 0, as the sequence of its UTF-16 code units
RECURSIVE NumberToString(_)
NumberToString(n) ==
    IF n < 10 THEN <<48 + n>> ELSE NumberToString(n \div 10) \o <<48 + (n % 10)>>

\* Number(str) of a string of decimal digits
RECURSIVE Number(_)
Number(str) ==
    IF Len(str) = 1
    THEN str[1] - 48
    ELSE 10 * Number(SubSeq(str, 1, Len(str) - 1)) + (str[Len(str)] - 48)

\* s < t on strings: by code unit, a proper prefix first
RECURSIVE StrLess(_, _)
StrLess(s, t) ==
    IF t = <<>> THEN FALSE
    ELSE IF s = <<>> THEN TRUE
    ELSE IF s[1] # t[1] THEN s[1] < t[1]
    ELSE StrLess(Tail(s), Tail(t))

\* the pair left as pushed, with no canonical order
DefaultSortUnsorted(edge) == edge

\* [a, b].sort(): Array.prototype.sort without a comparator orders the
\* elements by their string conversions
DefaultSort(edge) ==
    IF StrLess(NumberToString(edge[2]), NumberToString(edge[1]))
    THEN <<edge[2], edge[1]>>
    ELSE edge

\* [x, y].join(sep)
Join(pair, sep) == NumberToString(pair[1]) \o <<sep>> \o NumberToString(pair[2])

\* key.split(sep) of a key holding sep once
Split(key, sep) ==
    LET k == CHOOSE i \in 1..Len(key) : key[i] = sep
    IN <<SubSeq(key, 1, k - 1), SubSeq(key, k + 1, Len(key))>>

\* key.split(sep).map(Number)
ParseEdge(key, sep) ==
    LET parts == Split(key, sep) IN <<Number(parts[1]), Number(parts[2])>>

\* new Set(keys), in insertion order
RECURSIVE SetOf(_, _)
SetOf(keys, seen) ==
    IF keys = <<>> THEN seen
    ELSE IF \E k \in 1..Len(seen) : seen[k] = keys[1]
         THEN SetOf(Tail(keys), seen)
         ELSE SetOf(Tail(keys), Append(seen, keys[1]))

\* the three sides pushed for the triangle at i: [a, b], [b, c], [c, a]
Sides(index, i) ==
    LET a == index[i + 1]
        b == index[i + 2]
        c == index[i + 3]
    IN <<(<<a, b>>), (<<b, c>>), (<<c, a>>)>>

\* for (let i = 0; i < index.count; i += 3)
RECURSIVE PushEdges(_, _)
PushEdges(index, i) ==
    IF i >= Len(index) THEN <<>> ELSE Sides(index, i) \o PushEdges(index, i + 3)

Min(a, b) == IF a < b THEN a ELSE b

Max(a, b) == IF a < b THEN b ELSE a

\* Scene.tsx:159-174, first version
UniqueEdges(index) ==
    LET pushed == PushEdges(index, 0)
        keys == [k \in 1..Len(pushed) |-> Join(DefaultSort(pushed[k]), Comma)]
        set == SetOf(keys, <<>>)
    IN [k \in 1..Len(set) |-> ParseEdge(set[k], Comma)]

\* Scene.tsx:557-570, second version: the Set of keys `${min}-${max}`
EdgeKeys(index) ==
    LET pushed == PushEdges(index, 0)
        keys == [k \in 1..Len(pushed) |->
                    Join(<<Min(pushed[k][1], pushed[k][2]),
                           Max(pushed[k][1], pushed[k][2])>>, Hyphen)]
    IN SetOf(keys, <<>>)

\* Scene.tsx:574-575: Array.from(edges).map(edge => edge.split('-').map(Number))
EdgePairs(keys) == [k \in 1..Len(keys) |-> ParseEdge(keys[k], Hyphen)]

\* a triangle has three different corners
Triangles ==
    {t \in IndexValues \X IndexValues \X IndexValues :
        t[1] # t[2] /\ t[2] # t[3] /\ t[1] # t[3]}

RECURSIVE Flatten(_)
Flatten(ts) == IF ts = <<>> THEN <<>> ELSE ts[1] \o Flatten(Tail(ts))

TriangleLists ==
    {Flatten(ts) : ts \in UNION {[1..n -> Triangles] : n \in 0..MaxTris}}

DeriveInit ==
    /\ tris \in TriangleLists
    /\ uniqueEdges = <<>>
    /\ edges = <<>>
    /\ pc = "input"

\* one render of EdgeLines on a geometry whose index is tris
DeriveEdges ==
    /\ pc = "input"
    /\ uniqueEdges' = UniqueEdges(tris)
    /\ edges' = EdgeKeys(tris)
    /\ pc' = "derived"
    /\ UNCHANGED tris
    /\ UNCHANGED storeVars

-----------------------------------------------------------------------------
(* The store *)

\* sceneStore.ts:58-62, 304-308: the three selection lists, empty
NoSelection == [vertices |-> <<>>, edges |-> <<>>, faces |-> <<>>]

\* sceneStore.ts:54, 66-69: the objects list once the scene's three objects
\* have been added, each entry visible; an entry's name is never read
Scene ==
    <<[id |-> 1, object |-> "M1", visible |-> TRUE],
      [id |-> 2, object |-> "M2", visible |-> TRUE],
      [id |-> 3, object |-> "G", visible |-> TRUE]>>

\* sceneStore.ts:55-64: the fields of the store as created, the objects
\* list aside
FieldsInit ==
    /\ selectedObject = NoObject
    /\ editMode = "null"
    /\ selectedElements = [vertices |-> <<>>, edges |-> <<>>, faces |-> <<>>]
    /\ draggedVertex = NULL
    /\ draggedEdge = NULL
    /\ position = [o \in Meshes |-> InitialPosition(o)]
    /\ returned = Void
    /\ dirty = NoObject
    /\ normals = [o \in Meshes |-> InitialPosition(o)]
    /\ noop = FALSE
    /\ owner = [vertex |-> NoObject, edge |-> NoObject]
    /\ edits = 0

\* the store with the scene's objects added and nothing selected
StoreInit == FieldsInit /\ objects = Scene

DeriveIdle ==
    /\ tris = <<>>
    /\ uniqueEdges = <<>>
    /\ edges = <<>>
    /\ pc = "input"

Init == StoreInit /\ DeriveIdle

\* sceneStore.ts:79
SetSelectedObject(object) ==
    /\ selectedObject' = object
    /\ noop' = FALSE
    /\ returned' = Void
    /\ dirty' = NoObject
    /\ UNCHANGED normals
    /\ UNCHANGED <<editMode, selectedElements, draggedVertex, draggedEdge,
                   position, owner, edits>>
    /\ UNCHANGED deriveVars
    /\ UNCHANGED objects

\* crypto.randomUUID(): an id no entry of the list has
Ids == 1..MaxObjects

FreshIds == Ids \ {objects[k].id : k \in 1..Len(objects)}

\* what an operation of the objects list leaves alone
ObjectsFrame ==
    /\ noop' = FALSE
    /\ returned' = Void
    /\ dirty' = NoObject
    /\ UNCHANGED <<editMode, selectedElements, draggedVertex, draggedEdge,
                   position, normals, owner, edits>>
    /\ UNCHANGED deriveVars

\* sceneStore.ts:66-69
AddObject(object, id) ==
    /\ Len(objects) < MaxObjects
    /\ id \in FreshIds
    /\ objects' = Append(objects,
                         [id |-> id, object |-> object, visible |-> TRUE])
    /\ UNCHANGED selectedObject
    /\ ObjectsFrame

\* objects.find((obj) => obj.id === id): the first entry with the id, NULL
\* (undefined) if no entry has it
Find(list, id) ==
    IF \E k \in 1..Len(list) : list[k].id = id
    THEN <<list[CHOOSE k \in 1..Len(list) :
                    /\ list[k].id = id
                    /\ \A j \in 1..(k - 1) : list[j].id # id]>>
    ELSE NULL

\* sceneStore.ts:71-77
RemoveObject(id) ==
    /\ objects' = SelectSeq(objects, LAMBDA obj : obj.id # id)
    /\ selectedObject' =
           IF Find(objects, id) # NULL
                  /\ Find(objects, id)[1].object = selectedObject
           THEN NoObject
           ELSE selectedObject
    /\ ObjectsFrame

\* the selected object stays selected when its entry is hidden
ToggleVisibilityKeepingSelection(id) ==
    /\ objects' = [k \in 1..Len(objects) |->
                       IF objects[k].id = id
                       THEN [objects[k] EXCEPT !.visible = ~@]
                       ELSE objects[k]]
    /\ UNCHANGED selectedObject
    /\ ObjectsFrame

\* sceneStore.ts:83-99
ToggleVisibility(id) ==
    LET updatedObjects ==
            [k \in 1..Len(objects) |->
                IF objects[k].id = id
                THEN [objects[k] EXCEPT !.visible = ~@]
                ELSE objects[k]]
        toggledObject == Find(updatedObjects, id)
    IN /\ objects' = updatedObjects
       /\ selectedObject' =
              IF /\ toggledObject # NULL
                 /\ ~toggledObject[1].visible
                 /\ toggledObject[1].object = selectedObject
              THEN NoObject
              ELSE selectedObject
       /\ ObjectsFrame

\* Scene.tsx:371-382: a click on the primitive of entry k, rendered while
\* the entry is visible
ClickObject(k) ==
    /\ objects[k].visible
    /\ SetSelectedObject(objects[k].object)

\* sceneStore.ts:81
SetEditMode(mode) ==
    /\ editMode' = mode
    /\ noop' = FALSE
    /\ returned' = Void
    /\ dirty' = NoObject
    /\ UNCHANGED normals
    /\ UNCHANGED <<selectedObject, selectedElements, draggedVertex,
                   draggedEdge, position, owner, edits>>
    /\ UNCHANGED deriveVars
    /\ UNCHANGED objects

\* sceneStore.ts:145-161: the scan for (let i = 0; i < positions.count; i++)
RECURSIVE ScanVertices(_, _, _)
ScanVertices(buf, selectedPos, i) ==
    IF i >= Count(buf)
    THEN <<>>
    ELSE (IF Near(GetXYZ(buf, i), selectedPos) THEN <<i>> ELSE <<>>)
             \o ScanVertices(buf, selectedPos, i + 1)

OverlappingIndices(buf, index) == ScanVertices(buf, GetXYZ(buf, index), 0)

\* a geometry without index is turned away like an object that is no mesh
StartVertexDragIndexed(index, vertex) ==
    LET refused ==
            \/ ~IsMesh(selectedObject)
            \/ IndexArray(selectedObject, Count(position[selectedObject]))
                   = NULL
    IN /\ noop' = refused
       /\ returned' = Void
       /\ dirty' = NoObject
       /\ UNCHANGED normals
       /\ IF refused
          THEN UNCHANGED <<selectedElements, draggedVertex, owner, edits>>
          ELSE LET overlappingIndices ==
                       OverlappingIndices(position[selectedObject], index)
               IN /\ selectedElements' =
                         [selectedElements EXCEPT
                              !.vertices = overlappingIndices]
                  /\ draggedVertex' = <<[indices |-> overlappingIndices,
                                         position |-> vertex,
                                         initialPosition |-> vertex]>>
                  /\ owner' = [owner EXCEPT !.vertex = selectedObject]
                  /\ edits < MaxEdits
                  /\ edits' = edits + 1
       /\ UNCHANGED <<selectedObject, editMode, draggedEdge, position>>
       /\ UNCHANGED deriveVars
       /\ UNCHANGED objects

\* the group is welded at the start: its vertices are written onto the
\* clicked vertex
StartVertexDragWelding(index, vertex) ==
    /\ noop' = ~IsMesh(selectedObject)
    /\ returned' = Void
    /\ dirty' = NoObject
    /\ UNCHANGED normals
    /\ IF ~IsMesh(selectedObject)
       THEN UNCHANGED <<selectedElements, draggedVertex, owner, edits,
                        position>>
       ELSE LET buf == position[selectedObject]
                overlappingIndices == OverlappingIndices(buf, index)
            IN /\ selectedElements' =
                      [selectedElements EXCEPT !.vertices = overlappingIndices]
               /\ draggedVertex' = <<[indices |-> overlappingIndices,
                                      position |-> vertex,
                                      initialPosition |-> vertex]>>
               /\ owner' = [owner EXCEPT !.vertex = selectedObject]
               /\ edits < MaxEdits
               /\ edits' = edits + 1
               /\ position' =
                      [position EXCEPT ![selectedObject] =
                          [j \in DOMAIN buf |->
                              IF \E k \in 1..Len(overlappingIndices) :
                                     overlappingIndices[k] = j
                              THEN GetXYZ(buf, index)
                              ELSE buf[j]]]
    /\ UNCHANGED <<selectedObject, editMode, draggedEdge>>
    /\ UNCHANGED deriveVars
    /\ UNCHANGED objects

\* sceneStore.ts:139-174
StartVertexDrag(index, vertex) ==
    /\ noop' = ~IsMesh(selectedObject)
    /\ returned' = Void
    /\ dirty' = NoObject
    /\ UNCHANGED normals
    /\ IF ~IsMesh(selectedObject)
       THEN UNCHANGED <<selectedElements, draggedVertex, owner, edits>>
       ELSE LET overlappingIndices ==
                    OverlappingIndices(position[selectedObject], index)
            IN /\ selectedElements' =
                      [selectedElements EXCEPT !.vertices = overlappingIndices]
               /\ draggedVertex' = <<[indices |-> overlappingIndices,
                                      position |-> vertex,
                                      initialPosition |-> vertex]>>
               /\ owner' = [owner EXCEPT !.vertex = selectedObject]
               /\ edits < MaxEdits
               /\ edits' = edits + 1
    /\ UNCHANGED <<selectedObject, editMode, draggedEdge, position>>
    /\ UNCHANGED deriveVars
    /\ UNCHANGED objects

\* only the first vertex of the group is written
WriteFirstVertex(buf, indices, v, k) ==
    IF indices = <<>> THEN buf ELSE SetXYZ(buf, indices[1], v)

\* sceneStore.ts:183-190: indices.forEach(index => positions.setXYZ(index, ...))
RECURSIVE WriteVertices(_, _, _, _)
WriteVertices(buf, indices, v, k) ==
    IF k > Len(indices)
    THEN buf
    ELSE WriteVertices(SetXYZ(buf, indices[k], v), indices, v, k + 1)

\* without a session the selected vertices are written
UpdateVertexDragOfSelection(target) ==
    /\ noop' = ~IsMesh(selectedObject)
    /\ returned' = Void
    /\ IF ~IsMesh(selectedObject)
       THEN /\ UNCHANGED <<draggedVertex, position, normals>>
            /\ dirty' = NoObject
       ELSE /\ position' =
                   [position EXCEPT ![selectedObject] =
                       WriteVertices(@, IF draggedVertex = NULL
                                        THEN selectedElements.vertices
                                        ELSE draggedVertex[1].indices,
                                     target, 1)]
            /\ dirty' = selectedObject
            /\ normals' = [normals EXCEPT ![selectedObject] =
                               position'[selectedObject]]
            /\ draggedVertex' =
                   IF draggedVertex = NULL THEN NULL
                   ELSE <<[draggedVertex[1] EXCEPT !.position = target]>>
    /\ UNCHANGED <<selectedObject, editMode, selectedElements, draggedEdge,
                   owner, edits>>
    /\ UNCHANGED deriveVars
    /\ UNCHANGED objects

\* sceneStore.ts:176-201
UpdateVertexDrag(target) ==
    /\ noop' = (draggedVertex = NULL \/ ~IsMesh(selectedObject))
    /\ returned' = Void
    /\ IF draggedVertex = NULL \/ ~IsMesh(selectedObject)
       THEN /\ UNCHANGED <<draggedVertex, position, normals>>
            /\ dirty' = NoObject
       ELSE /\ position' =
                   [position EXCEPT ![selectedObject] =
                       WriteVertices(@, draggedVertex[1].indices, target, 1)]
            /\ dirty' = selectedObject
            /\ normals' = [normals EXCEPT ![selectedObject] =
                               position'[selectedObject]]
            /\ draggedVertex' =
                   <<[draggedVertex[1] EXCEPT !.position = target]>>
    /\ UNCHANGED <<selectedObject, editMode, selectedElements, draggedEdge,
                   owner, edits>>
    /\ UNCHANGED deriveVars
    /\ UNCHANGED objects

\* the group is put back where the drag found it
EndVertexDragRollback ==
    /\ draggedVertex' = NULL
    /\ noop' = FALSE
    /\ returned' = Void
    /\ dirty' = NoObject
    /\ UNCHANGED normals
    /\ owner' = [owner EXCEPT !.vertex = NoObject]
    /\ position' =
           IF draggedVertex = NULL \/ ~IsMesh(selectedObject)
           THEN position
           ELSE [position EXCEPT ![selectedObject] =
                    WriteVertices(@, draggedVertex[1].indices,
                                  draggedVertex[1].initialPosition, 1)]
    /\ UNCHANGED <<selectedObject, editMode, selectedElements, draggedEdge,
                   edits>>
    /\ UNCHANGED deriveVars
    /\ UNCHANGED objects

\* sceneStore.ts:203
EndVertexDrag ==
    /\ draggedVertex' = NULL
    /\ noop' = FALSE
    /\ returned' = Void
    /\ dirty' = NoObject
    /\ UNCHANGED normals
    /\ owner' = [owner EXCEPT !.vertex = NoObject]
    /\ UNCHANGED <<selectedObject, editMode, selectedElements, draggedEdge,
                   position, edits>>
    /\ UNCHANGED deriveVars
    /\ UNCHANGED objects

\* vertexIndices.includes(v)
Includes(list, v) == \E k \in 1..Len(list) : list[k] = v

\* sceneStore.ts:232-234: the test that takes the side (v1Index, v2Index)
SideMatches(buf, vertexIndices, positions, v1Index, v2Index) ==
    LET v1 == GetXYZ(buf, v1Index)
        v2 == GetXYZ(buf, v2Index)
    IN \/ Includes(vertexIndices, v1Index) /\ Includes(vertexIndices, v2Index)
       \/ Near(v1, positions[1]) /\ Near(v2, positions[2])
       \/ Near(v1, positions[2]) /\ Near(v2, positions[1])

\* sceneStore.ts:216-240: for (i = 0; i < count; i += 3) for (j = 0; j < 3; j++)
\* with v1Index = i + j and v2Index = i + ((j + 1) % 3); n counts the sides
RECURSIVE ScanSides(_, _, _, _)
ScanSides(buf, vertexIndices, positions, n) ==
    LET i == 3 * (n \div 3)
        j == n % 3
        v1Index == i + j
        v2Index == i + ((j + 1) % 3)
    IN IF i >= Count(buf)
       THEN <<>>
       ELSE (IF SideMatches(buf, vertexIndices, positions, v1Index, v2Index)
             THEN <<(<<v1Index, v2Index>>)>>
             ELSE <<>>)
                \o ScanSides(buf, vertexIndices, positions, n + 1)

\* allPositions: v1.clone(), v2.clone() of every pair taken
AllPositions(buf, pairs) ==
    [k \in 1..(2 * Len(pairs)) |->
        GetXYZ(buf, pairs[(k + 1) \div 2][IF k % 2 = 1 THEN 1 ELSE 2])]

\* sceneStore.ts:205-254: the state startEdgeDrag returns on a mesh
StartEdgeDrag(vertexIndices, positions, edgeIndex) ==
    LET buf == position[selectedObject]
        overlappingEdges == ScanSides(buf, vertexIndices, positions, 0)
        edgeIndices ==
            <<edgeIndex>> \o [k \in 1..Len(overlappingEdges) |-> k - 1]
    IN [selectedElements |->
            [selectedElements EXCEPT !.edges = edgeIndices],
        draggedEdge |->
            <<[indices |-> overlappingEdges,
               positions |-> AllPositions(buf, overlappingEdges),
               initialPositions |-> positions,
               edgeIndices |-> edgeIndices]>>]

\* sceneStore.ts:131-137
SetSelectedElements(elements, type, indices) ==
    [elements EXCEPT ![type] = indices]

\* sceneStore.ts:42: the element types setSelectedElements takes
ElementTypes == {"vertices", "edges", "faces"}

\* the index lists handed to setSelectedElements
IndexLists == {<<>>, <<0>>, <<0, 1>>}

\* sceneStore.ts:131-137: setSelectedElements called on the store
SetSelectedElementsCall(type, indices) ==
    /\ selectedElements' =
           SetSelectedElements(selectedElements, type, indices)
    /\ noop' = FALSE
    /\ returned' = Void
    /\ dirty' = NoObject
    /\ UNCHANGED normals
    /\ UNCHANGED <<selectedObject, editMode, draggedVertex, draggedEdge,
                   position, owner, edits>>
    /\ UNCHANGED deriveVars
    /\ UNCHANGED objects

\* the offset is added to the current positions, not to the snapshot
RECURSIVE WriteEdgesAccumulating(_, _, _, _)
WriteEdgesAccumulating(buf, session, offset, k) ==
    IF k > Len(session.indices)
    THEN buf
    ELSE LET v1 == session.indices[k][1]
             v2 == session.indices[k][2]
             pos1 == Add(GetXYZ(buf, v1), offset)
             pos2 == Add(GetXYZ(buf, v2), offset)
         IN WriteEdgesAccumulating(SetXYZ(SetXYZ(buf, v1, pos1), v2, pos2),
                                   session, offset, k + 1)

\* sceneStore.ts:264-270: indices.forEach(([v1, v2], index) => ...)
RECURSIVE WriteEdges(_, _, _, _)
WriteEdges(buf, session, offset, k) ==
    IF k > Len(session.indices)
    THEN buf
    ELSE LET pos1 == Add(session.positions[2 * k - 1], offset)
             pos2 == Add(session.positions[2 * k], offset)
             v1 == session.indices[k][1]
             v2 == session.indices[k][2]
         IN WriteEdges(SetXYZ(SetXYZ(buf, v1, pos1), v2, pos2),
                       session, offset, k + 1)

\* the offset is taken from the second end point handed to startEdgeDrag
EdgeDraggedFromSecond(buf, session, target) ==
    WriteEdges(buf, session, Sub(target, session.initialPositions[2]), 1)

\* sceneStore.ts:262-270: the buffer after updateEdgeDrag(target)
EdgeDragged(buf, session, target) ==
    WriteEdges(buf, session, Sub(target, session.initialPositions[1]), 1)

\* the positions are written and nothing else is done: the buffer is not
\* marked and the normals stay those of the old positions
UpdateEdgeDragUnmarked(target) ==
    /\ noop' = (draggedEdge = NULL \/ ~IsMesh(selectedObject))
    /\ returned' = Void
    /\ dirty' = NoObject
    /\ UNCHANGED normals
    /\ IF draggedEdge = NULL \/ ~IsMesh(selectedObject)
       THEN UNCHANGED position
       ELSE position' = [position EXCEPT ![selectedObject] =
                            EdgeDragged(@, draggedEdge[1], target)]
    /\ UNCHANGED <<selectedObject, editMode, selectedElements, draggedVertex,
                   draggedEdge, owner, edits>>
    /\ UNCHANGED deriveVars
    /\ UNCHANGED objects

\* sceneStore.ts:256-276
UpdateEdgeDrag(target) ==
    /\ noop' = (draggedEdge = NULL \/ ~IsMesh(selectedObject))
    /\ returned' = Void
    /\ IF draggedEdge = NULL \/ ~IsMesh(selectedObject)
       THEN /\ UNCHANGED <<position, normals>>
            /\ dirty' = NoObject
       ELSE /\ position' =
                   [position EXCEPT ![selectedObject] =
                       EdgeDragged(@, draggedEdge[1], target)]
            /\ dirty' = selectedObject
            /\ normals' = [normals EXCEPT ![selectedObject] =
                               position'[selectedObject]]
    /\ UNCHANGED <<selectedObject, editMode, selectedElements, draggedVertex,
                   draggedEdge, owner, edits>>
    /\ UNCHANGED deriveVars
    /\ UNCHANGED objects

\* sceneStore.ts:278
EndEdgeDrag ==
    /\ draggedEdge' = NULL
    /\ noop' = FALSE
    /\ returned' = Void
    /\ dirty' = NoObject
    /\ UNCHANGED normals
    /\ owner' = [owner EXCEPT !.edge = NoObject]
    /\ UNCHANGED <<selectedObject, editMode, selectedElements, draggedVertex,
                   position, edits>>
    /\ UNCHANGED deriveVars
    /\ UNCHANGED objects

\* without the test of the selected object: a session of no participants
\* is opened on whatever is selected
StartEdgeDragCallUnguarded(vertexIndices, positions, edgeIndex) ==
    /\ noop' = FALSE
    /\ returned' = Void
    /\ dirty' = NoObject
    /\ UNCHANGED normals
    /\ LET started ==
               IF IsMesh(selectedObject)
               THEN StartEdgeDrag(vertexIndices, positions, edgeIndex)
               ELSE [selectedElements |->
                         [selectedElements EXCEPT !.edges = <<edgeIndex>>],
                     draggedEdge |->
                         <<[indices |-> <<>>,
                            positions |-> <<>>,
                            initialPositions |-> positions,
                            edgeIndices |-> <<edgeIndex>>]>>]
       IN /\ selectedElements' = started.selectedElements
          /\ draggedEdge' = started.draggedEdge
    /\ owner' = [owner EXCEPT !.edge = selectedObject]
    /\ edits < MaxEdits
    /\ edits' = edits + 1
    /\ UNCHANGED <<selectedObject, editMode, draggedVertex, position>>
    /\ UNCHANGED deriveVars
    /\ UNCHANGED objects

\* sceneStore.ts:205-254: startEdgeDrag called on the store
StartEdgeDragCall(vertexIndices, positions, edgeIndex) ==
    /\ noop' = ~IsMesh(selectedObject)
    /\ returned' = Void
    /\ dirty' = NoObject
    /\ UNCHANGED normals
    /\ IF ~IsMesh(selectedObject)
       THEN UNCHANGED <<selectedElements, draggedEdge, owner, edits>>
       ELSE LET started == StartEdgeDrag(vertexIndices, positions, edgeIndex)
            IN /\ selectedElements' = started.selectedElements
               /\ draggedEdge' = started.draggedEdge
               /\ owner' = [owner EXCEPT !.edge = selectedObject]
               /\ edits < MaxEdits
               /\ edits' = edits + 1
    /\ UNCHANGED <<selectedObject, editMode, draggedVertex, position>>
    /\ UNCHANGED deriveVars
    /\ UNCHANGED objects

\* geometry.dispose(): the sessions begun on the geometry of mesh o now
\* hold indices of a geometry that is gone
Dispose(o) ==
    [vertex |-> IF owner.vertex = o THEN Disposed ELSE owner.vertex,
     edge |-> IF owner.edge = o THEN Disposed ELSE owner.edge]

\* sceneStore.ts:280-310
UpdateCylinderVertices(vertexCount) ==
    /\ noop' = (~IsMesh(selectedObject)
                   \/ GeometryKind(selectedObject) # "cylinder")
    /\ returned' = Void
    /\ dirty' = NoObject
    /\ IF ~IsMesh(selectedObject) \/ GeometryKind(selectedObject) # "cylinder"
       THEN UNCHANGED <<selectedElements, position, normals, owner, edits>>
       ELSE /\ position' = [position EXCEPT ![selectedObject] =
                                CylinderPositions(vertexCount)]
            /\ normals' = [normals EXCEPT ![selectedObject] =
                               CylinderPositions(vertexCount)]
            /\ selectedElements' = NoSelection
            /\ owner' = Dispose(selectedObject)
            /\ edits < MaxEdits
            /\ edits' = edits + 1
    /\ UNCHANGED <<selectedObject, editMode, draggedVertex, draggedEdge>>
    /\ UNCHANGED deriveVars
    /\ UNCHANGED objects

\* sceneStore.ts:312-341
UpdateSphereVertices(vertexCount) ==
    /\ noop' = (~IsMesh(selectedObject)
                   \/ GeometryKind(selectedObject) # "sphere")
    /\ returned' = Void
    /\ dirty' = NoObject
    /\ IF ~IsMesh(selectedObject) \/ GeometryKind(selectedObject) # "sphere"
       THEN UNCHANGED <<selectedElements, position, normals, owner, edits>>
       ELSE /\ position' = [position EXCEPT ![selectedObject] =
                                SpherePositions(vertexCount)]
            /\ normals' = [normals EXCEPT ![selectedObject] =
                               SpherePositions(vertexCount)]
            /\ selectedElements' = NoSelection
            /\ owner' = Dispose(selectedObject)
            /\ edits < MaxEdits
            /\ edits' = edits + 1
    /\ UNCHANGED <<selectedObject, editMode, draggedVertex, draggedEdge>>
    /\ UNCHANGED deriveVars
    /\ UNCHANGED objects

\* Scene.tsx:252-295: the window's pointerup listener is registered while
\* a mesh is selected and an edit mode is on; without it the event finds
\* no handler
Listening ==
    /\ selectedObject # NoObject
    /\ editMode # "null"
    /\ IsMesh(selectedObject)

\* Scene.tsx:280-287: a pointerup event
PointerUp ==
    /\ noop' = (~Listening \/ (draggedVertex = NULL /\ draggedEdge = NULL))
    /\ returned' = Void
    /\ dirty' = NoObject
    /\ UNCHANGED normals
    /\ IF Listening
       THEN /\ draggedVertex' = NULL
            /\ draggedEdge' = NULL
            /\ owner' = [vertex |-> IF draggedVertex # NULL THEN NoObject
                                    ELSE owner.vertex,
                         edge |-> IF draggedEdge # NULL THEN NoObject
                                  ELSE owner.edge]
       ELSE UNCHANGED <<draggedVertex, draggedEdge, owner>>
    /\ UNCHANGED <<selectedObject, editMode, selectedElements, position,
                   edits>>
    /\ UNCHANGED deriveVars
    /\ UNCHANGED objects

\* Scene.tsx:115-135: the vertex handles of the selected mesh; a click on
\* handle i calls startVertexDrag(i, vertex) with the world-space vertex.
VertexHandles ==
    IF IsMesh(selectedObject) THEN DOMAIN position[selectedObject] ELSE {0}

HandleVertex(i) ==
    IF IsMesh(selectedObject)
    THEN ApplyMatrix4(GetXYZ(position[selectedObject], i), selectedObject)
    ELSE <<0, 0, 0>>

\* Scene.tsx:155-174: the edges EdgeLines derives for each mesh, none for a
\* geometry without index
UniqueEdgesOf ==
    [o \in Meshes |->
        [n \in Counts |->
            IF IndexArray(o, n) = NULL
            THEN <<>>
            ELSE UniqueEdges(IndexArray(o, n)[1])]]

\* Scene.tsx:178: the edge handles of the selected mesh, uniqueEdges.map
EdgeHandles ==
    IF IsMesh(selectedObject)
    THEN UniqueEdgesOf[selectedObject][Count(position[selectedObject])]
    ELSE <<>>

\* Scene.tsx:196-202: a click on edge handle i (0-based) calls
\* startEdgeDrag([start, end], [startPos, endPos]) with world-space end
\* points and no edgeIndex, then setSelectedElements('edges', [i]).
EdgeHandleClick(i) ==
    LET start == EdgeHandles[i + 1][1]
        end == EdgeHandles[i + 1][2]
        buf == position[selectedObject]
        startPos == ApplyMatrix4(GetXYZ(buf, start), selectedObject)
        endPos == ApplyMatrix4(GetXYZ(buf, end), selectedObject)
        started == StartEdgeDrag(<<start, end>>, <<startPos, endPos>>,
                                 Undefined)
    IN /\ noop' = FALSE
       /\ returned' = Void
       /\ dirty' = NoObject
       /\ UNCHANGED normals
       /\ draggedEdge' = started.draggedEdge
       /\ selectedElements' =
              SetSelectedElements(started.selectedElements, "edges", <<i>>)
       /\ owner' = [owner EXCEPT !.edge = selectedObject]
       /\ edits < MaxEdits
       /\ edits' = edits + 1
       /\ UNCHANGED <<selectedObject, editMode, draggedVertex, position>>
       /\ UNCHANGED deriveVars
       /\ UNCHANGED objects

\* the arguments of a call of startEdgeDrag on the store: the edge (0, 1)
\* of the cylinder, handle 0 of its overlay, with the local-space positions
\* its end points are created at
EdgeCalls ==
    {[vertexIndices |-> <<0, 1>>,
      positions |-> <<(<<0, 0, 0>>), (<<1, 0, 0>>)>>,
      edgeIndex |-> 0]}

\* the edge handles a run clicks: the first and the last of the overlay
EdgeClicks ==
    {i \in 0..(Len(EdgeHandles) - 1) : i = 0 \/ i = Len(EdgeHandles) - 1}

\* The store operations, called in any order; the store does not look at
\* editMode, so no call is gated on it.
Next ==
    \/ \E o \in Objects \cup {NoObject} : SetSelectedObject(o)
    \/ \E m \in EditModes : SetEditMode(m)
    \/ \E i \in VertexHandles : StartVertexDrag(i, HandleVertex(i))
    \/ \E t \in Targets : UpdateVertexDrag(t)
    \/ EndVertexDrag
    \/ \E i \in EdgeClicks : EdgeHandleClick(i)
    \/ \E t \in Targets : UpdateEdgeDrag(t)
    \/ EndEdgeDrag
    \/ \E c \in EdgeCalls :
           StartEdgeDragCall(c.vertexIndices, c.positions, c.edgeIndex)
    \/ \E n \in VertexCounts : UpdateCylinderVertices(n)
    \/ \E n \in VertexCounts : UpdateSphereVertices(n)
    \/ PointerUp

Spec == Init /\ [][Next]_vars

\* the edge derivation alone: the store stays as created
EdgesInit == StoreInit /\ DeriveInit

EdgesNext == DeriveEdges

SpecEdges == EdgesInit /\ [][EdgesNext]_vars

\* the selection lists alone: the operations that write selectedElements,
\* setSelectedElements with every element type of its signature among them
SelectionInit == StoreInit /\ DeriveIdle

SelectionNext ==
    \/ \E o \in Objects \cup {NoObject} : SetSelectedObject(o)
    \/ \E type \in ElementTypes, indices \in IndexLists :
           SetSelectedElementsCall(type, indices)
    \/ \E i \in VertexHandles : StartVertexDrag(i, HandleVertex(i))
    \/ \E i \in EdgeClicks : EdgeHandleClick(i)
    \/ \E c \in EdgeCalls :
           StartEdgeDragCall(c.vertexIndices, c.positions, c.edgeIndex)
    \/ \E n \in VertexCounts : UpdateCylinderVertices(n)
    \/ \E n \in VertexCounts : UpdateSphereVertices(n)

SpecSelection == SelectionInit /\ [][SelectionNext]_vars

\* the objects list alone, from the store as created: objects are added,
\* removed, hidden, shown and selected by a click
ObjectsInit == FieldsInit /\ objects = <<>> /\ DeriveIdle

ObjectsNext ==
    \/ \E o \in Objects, id \in Ids : AddObject(o, id)
    \/ \E id \in Ids : RemoveObject(id)
    \/ \E id \in Ids : ToggleVisibility(id)
    \/ \E k \in 1..Len(objects) : ClickObject(k)

SpecObjects == ObjectsInit /\ [][ObjectsNext]_vars

-----------------------------------------------------------------------------
(* Properties of the store, under Spec *)

\* C1: in every reachable state of the store at most one drag session is
\* open: draggedVertex and draggedEdge are never both non-null.
C1_AtMostOneSession == ~(draggedVertex # NULL /\ draggedEdge # NULL)

\* C2: when a vertex-drag session is open on the mesh it was started on,
\* after updateVertexDrag(target) every vertex index of the session's group
\* has position exactly target, so the group is still coincident.
C2_VertexDragCollapses ==
    [][\A t \in Targets :
          (/\ UpdateVertexDrag(t)
           /\ draggedVertex # NULL
           /\ IsMesh(selectedObject)
           /\ owner.vertex = selectedObject)
          => LET g == draggedVertex[1].indices
                 buf == position'[selectedObject]
             IN /\ \A k \in 1..Len(g) : GetXYZ(buf, g[k]) = t
                /\ \A j, k \in 1..Len(g) :
                       DistSq(GetXYZ(buf, g[j]), GetXYZ(buf, g[k])) = 0]_vars

\* a group of several vertices has been moved off its starting point onto
\* the target of an update
C2_Witness ==
    /\ draggedVertex # NULL
    /\ IsMesh(selectedObject)
    /\ owner.vertex = selectedObject
    /\ Len(draggedVertex[1].indices) >= 2
    /\ draggedVertex[1].position # draggedVertex[1].initialPosition
    /\ \A k \in 1..Len(draggedVertex[1].indices) :
           position[selectedObject][draggedVertex[1].indices[k]]
               = draggedVertex[1].position

\* C3: for every edge-drag session and every target p, updateEdgeDrag(p)
\* applied again to the buffer it has just produced leaves the buffer
\* identical: the translation starts from the snapshot of startEdgeDrag.
C3_EdgeDragIdempotent ==
    [][\A t \in Targets :
          (/\ UpdateEdgeDrag(t)
           /\ draggedEdge # NULL
           /\ IsMesh(selectedObject))
          => EdgeDragged(position'[selectedObject], draggedEdge[1], t)
                 = position'[selectedObject]]_vars

\* an edge session with participants has translated them off the snapshot
C3_Witness ==
    /\ draggedEdge # NULL
    /\ IsMesh(selectedObject)
    /\ owner.edge = selectedObject
    /\ Len(draggedEdge[1].indices) >= 1
    /\ \E t \in Targets :
           /\ t # draggedEdge[1].initialPositions[1]
           /\ position[selectedObject]
                  = EdgeDragged(position[selectedObject], draggedEdge[1], t)
           /\ GetXYZ(position[selectedObject], draggedEdge[1].indices[1][1])
                  # draggedEdge[1].positions[1]

\* C4: the group computed by startVertexDrag(i, ...) contains i, contains
\* exactly the indices whose distance to vertex i's buffer position is
\* below the tolerance, and lists them in ascending index order.
C4_VertexGroup ==
    [][\A i \in VertexHandles :
          (StartVertexDrag(i, HandleVertex(i)) /\ IsMesh(selectedObject))
          => LET buf == position[selectedObject]
                 g == draggedVertex'[1].indices
             IN /\ Includes(g, i)
                /\ \A j \in DOMAIN buf :
                       Includes(g, j)
                           <=> DistSq(buf[j], buf[i]) < Tolerance * Tolerance
                /\ \A k \in 1..(Len(g) - 1) : g[k] < g[k + 1]]_vars

\* vertex 0 of M1 has been clicked: vertex 1, one unit away, is in the
\* group and vertex 2, exactly at the tolerance, is not
C4_Witness ==
    /\ draggedVertex # NULL
    /\ selectedObject = "M1"
    /\ owner.vertex = "M1"
    /\ draggedVertex[1].indices = <<0, 1>>
    /\ draggedVertex[1].position = draggedVertex[1].initialPosition
    /\ DistSq(position["M1"][0], position["M1"][1]) = 1
    /\ DistSq(position["M1"][0], position["M1"][2]) = Tolerance * Tolerance

\* C5: a drag target that arrives while its session is not open is a
\* no-op: the position buffers and the store state are unchanged.
C5_TargetWithoutSession ==
    [][\A t \in Targets :
          /\ (UpdateVertexDrag(t) /\ draggedVertex = NULL)
                 => UNCHANGED <<selectedObject, editMode, selectedElements,
                                draggedVertex, draggedEdge, position>>
          /\ (UpdateEdgeDrag(t) /\ draggedEdge = NULL)
                 => UNCHANGED <<selectedObject, editMode, selectedElements,
                                draggedVertex, draggedEdge, position>>]_vars

\* an update has returned early on a selected mesh with no session open
C5_Witness ==
    /\ noop
    /\ IsMesh(selectedObject)
    /\ draggedVertex = NULL
    /\ draggedEdge = NULL
    /\ selectedElements.vertices # <<>>

\* C6: once the selected mesh differs from the one a session was started
\* on, updateVertexDrag / updateEdgeDrag leave every position buffer, the
\* newly selected mesh's included, unchanged.
C6_OrphanedSessionWritesNothing ==
    [][\A t \in Targets :
          /\ (UpdateVertexDrag(t) /\ draggedVertex # NULL
                  /\ owner.vertex # selectedObject)
                 => UNCHANGED position
          /\ (UpdateEdgeDrag(t) /\ draggedEdge # NULL
                  /\ owner.edge # selectedObject)
                 => UNCHANGED position]_vars

\* C7: immediately after the selected object is switched or edit mode is
\* turned off, the three selection lists are empty and no session is open.
C7_SwitchClearsSelectionAndSession ==
    [][((\E o \in Objects \cup {NoObject} :
             SetSelectedObject(o) /\ o # selectedObject)
        \/ (SetEditMode("null") /\ editMode # "null"))
       => /\ selectedElements' = NoSelection
          /\ draggedVertex' = NULL
          /\ draggedEdge' = NULL]_vars

\* C10: ending a drag discards the session and changes no vertex position.
C10_EndKeepsBuffer ==
    [][/\ EndVertexDrag => draggedVertex' = NULL /\ position' = position
       /\ EndEdgeDrag => draggedEdge' = NULL /\ position' = position]_vars

\* sessions have been begun and ended and the moved positions are still
\* in the buffer
C10_Witness ==
    /\ edits >= 1
    /\ draggedVertex = NULL
    /\ draggedEdge = NULL
    /\ owner = [vertex |-> NoObject, edge |-> NoObject]
    /\ position["M1"] # InitialPosition("M1")
    /\ \A n \in VertexCounts : position["M1"] # CylinderPositions(n)

\* the fields of the store and the position buffers
storeFields == <<selectedObject, editMode, selectedElements, draggedVertex,
                 draggedEdge, position>>

\* one call of an editing operation of the store
EditingOperation ==
    \/ \E i \in VertexHandles : StartVertexDrag(i, HandleVertex(i))
    \/ \E t \in Targets : UpdateVertexDrag(t)
    \/ \E c \in EdgeCalls :
           StartEdgeDragCall(c.vertexIndices, c.positions, c.edgeIndex)
    \/ \E t \in Targets : UpdateEdgeDrag(t)
    \/ \E n \in VertexCounts : UpdateCylinderVertices(n)
    \/ \E n \in VertexCounts : UpdateSphereVertices(n)

\* C11: while the selected target is not a mesh (null or an object that is
\* no mesh), every editing operation (startVertexDrag, updateVertexDrag,
\* startEdgeDrag, updateEdgeDrag, updateCylinderVertices,
\* updateSphereVertices) leaves the store state and every buffer unchanged.
C11_NonMeshNoOp ==
    [][(~IsMesh(selectedObject) /\ EditingOperation)
           => (noop' /\ UNCHANGED storeFields)]_vars

\* an editing operation has returned early on the object that is no mesh,
\* with sessions of a mesh still open and moved vertices in the buffers
C11_Witness ==
    /\ noop
    /\ selectedObject = "G"
    /\ draggedVertex # NULL
    /\ draggedEdge # NULL
    /\ position["M1"] # InitialPosition("M1")

\* the failure the resolution operations are said to hand to their caller
ConfigurationError == "configuration error"

\* C12: a resolution change asked of a mesh whose primitive kind does not
\* support it (updateCylinderVertices on a non-cylinder,
\* updateSphereVertices on a non-sphere) returns a configuration error to
\* the caller and leaves the position buffer unmodified.
C12_ConfigurationErrorReturned ==
    [][\A n \in VertexCounts :
          /\ (/\ UpdateCylinderVertices(n)
              /\ IsMesh(selectedObject)
              /\ GeometryKind(selectedObject) # "cylinder")
                 => (returned' = ConfigurationError /\ UNCHANGED position)
          /\ (/\ UpdateSphereVertices(n)
              /\ IsMesh(selectedObject)
              /\ GeometryKind(selectedObject) # "sphere")
                 => (returned' = ConfigurationError /\ UNCHANGED position)]_vars

\* C13: a successful resolution change replaces the geometry of the
\* selected mesh and resets what was derived from the old one: afterwards
\* the three selection lists are empty and no drag session with
\* participants of the old geometry is open.
C13_RebuildResets ==
    [][\A n \in VertexCounts :
          ((UpdateCylinderVertices(n) \/ UpdateSphereVertices(n)) /\ ~noop')
              => /\ selectedElements' = NoSelection
                 /\ draggedVertex' = NULL
                 /\ draggedEdge' = NULL]_vars

\* C14: in every state where a drag session is open, a pointer-up event
\* leads to a state with no open session, whatever the edit mode and the
\* selected object are.
C14_PointerUpEndsDrag ==
    [][(PointerUp /\ (draggedVertex # NULL \/ draggedEdge # NULL))
           => (draggedVertex' = NULL /\ draggedEdge' = NULL)]_vars

\* the selected mesh has a geometry without index
NonIndexed ==
    /\ IsMesh(selectedObject)
    /\ IndexArray(selectedObject, Count(position[selectedObject])) = NULL

\* C15: a mesh with no index buffer has an empty derived edge set (no edge
\* handle) and vertex editing stays available on it: startVertexDrag opens
\* a session on the group of the clicked vertex and updateVertexDrag moves
\* the grouped vertices to the target.
C15_NonIndexedMesh ==
    [][NonIndexed =>
          /\ EdgeHandles = <<>>
          /\ \A i \in VertexHandles :
                 StartVertexDrag(i, HandleVertex(i))
                     => /\ draggedVertex' # NULL
                        /\ Includes(draggedVertex'[1].indices, i)
                        /\ selectedElements'.vertices
                               = draggedVertex'[1].indices
          /\ \A t \in Targets :
                 (/\ UpdateVertexDrag(t)
                  /\ draggedVertex # NULL
                  /\ owner.vertex = selectedObject)
                     => \A k \in 1..Len(draggedVertex[1].indices) :
                            position'[selectedObject]
                                [draggedVertex[1].indices[k]] = t]_vars

\* the two vertices of the mesh without index have been dragged off their
\* starting point, and the mesh shows no edge handle
C15_Witness ==
    /\ NonIndexed
    /\ EdgeHandles = <<>>
    /\ draggedVertex # NULL
    /\ owner.vertex = selectedObject
    /\ draggedVertex[1].indices = <<0, 1>>
    /\ \E t \in Targets :
           /\ t # InitialPosition(selectedObject)[0]
           /\ position[selectedObject][0] = t
           /\ position[selectedObject][1] = t

\* C16: there is no direct transition between vertex-dragging and
\* edge-dragging: from a state with only a vertex session open no single
\* operation gives a state with an edge session open, and the other way
\* round.
C16_NoDirectSwitch ==
    [][/\ (draggedVertex # NULL /\ draggedEdge = NULL)
              => draggedEdge' = NULL
       /\ (draggedEdge # NULL /\ draggedVertex = NULL)
              => draggedVertex' = NULL]_vars

\* C17: for every edge handle of the selected mesh, the edge group built
\* by the click holds the clicked edge's own vertex pair, as its first
\* participant.
C17_ClickedEdgeFirst ==
    [][\A i \in EdgeClicks :
          EdgeHandleClick(i)
              => LET g == draggedEdge'[1].indices
                 IN /\ Len(g) >= 1
                    /\ {g[1][1], g[1][2]}
                           = {EdgeHandles[i + 1][1], EdgeHandles[i + 1][2]}]_vars

\* the sides of a list of sides that startEdgeDrag's test takes
RECURSIVE MatchingSides(_, _, _, _)
MatchingSides(sides, buf, vertexIndices, positions) ==
    IF sides = <<>>
    THEN <<>>
    ELSE (IF SideMatches(buf, vertexIndices, positions,
                         sides[1][1], sides[1][2])
          THEN <<sides[1]>>
          ELSE <<>>)
             \o MatchingSides(Tail(sides), buf, vertexIndices, positions)

\* C18: the edge group of a click is built from the sides of the triangles
\* of the mesh's triangle list, 3 per triangle in triangle order: it holds
\* a side exactly when both its indices are in the clicked edge's indices
\* or its end points match the two given positions, and holds no pair that
\* is not a side of a triangle.
C18_GroupFromTriangleSides ==
    [][\A i \in EdgeClicks :
          EdgeHandleClick(i)
              => LET buf == position[selectedObject]
                     index == IndexArray(selectedObject, Count(buf))[1]
                     start == EdgeHandles[i + 1][1]
                     end == EdgeHandles[i + 1][2]
                 IN draggedEdge'[1].indices
                        = MatchingSides(PushEdges(index, 0), buf,
                                        <<start, end>>,
                                        draggedEdge'[1].initialPositions)]_vars

C20_FirstEndPointAtTarget ==
    [][\A t \in Targets :
          (/\ UpdateEdgeDrag(t)
           /\ draggedEdge # NULL
           /\ IsMesh(selectedObject)
           /\ owner.edge = selectedObject
           /\ draggedEdge[1].edgeIndices[1] = Undefined
           /\ Len(draggedEdge[1].indices) >= 1
           /\ Len(selectedElements.edges) = 1
           /\ selectedElements.edges[1] \in 0..(Len(EdgeHandles) - 1))
          => LET start == EdgeHandles[selectedElements.edges[1] + 1][1]
             IN GetXYZ(position'[selectedObject], start) = t]_vars

\* C21: the live position of a vertex-drag session on the selected mesh is
\* the mesh-local position of its group: startVertexDrag records the
\* clicked vertex's current buffer position as live and as initial
\* position, and after every updateVertexDrag the live position is the
\* position written to the group's vertices, whatever the world transform
\* of the mesh.
C21_LivePositionLocal ==
    [][/\ \A i \in VertexHandles :
              (StartVertexDrag(i, HandleVertex(i)) /\ IsMesh(selectedObject))
                  => LET local == GetXYZ(position[selectedObject], i)
                     IN /\ draggedVertex'[1].position = local
                        /\ draggedVertex'[1].initialPosition = local
       /\ \A t \in Targets :
              (/\ UpdateVertexDrag(t)
               /\ draggedVertex # NULL
               /\ IsMesh(selectedObject)
               /\ owner.vertex = selectedObject)
                  => \A k \in 1..Len(draggedVertex[1].indices) :
                         GetXYZ(position'[selectedObject],
                                draggedVertex[1].indices[k])
                             = draggedVertex'[1].position]_vars

\* the edge handles shown as selected: isSelected of Scene.tsx:191
Highlighted ==
    {j \in 0..(Len(EdgeHandles) - 1) : Includes(selectedElements.edges, j)}

\* C22: starting a drag overwrites the selection list of the dragged
\* element type with the computed group and leaves the two other lists as
\* they were: after startVertexDrag the vertices selection is the
\* coincidence group, and after a click on an edge handle the handles shown
\* as selected are exactly the derived edges whose vertex pair is in the
\* edge group.
C22_SelectionIsGroup ==
    [][/\ \A i \in VertexHandles :
              (StartVertexDrag(i, HandleVertex(i)) /\ IsMesh(selectedObject))
                  => /\ selectedElements'.vertices = draggedVertex'[1].indices
                     /\ selectedElements'.edges = selectedElements.edges
                     /\ selectedElements'.faces = selectedElements.faces
       /\ \A i \in EdgeClicks :
              EdgeHandleClick(i)
                  => LET g == draggedEdge'[1].indices
                         group == {{g[k][1], g[k][2]} : k \in 1..Len(g)}
                     IN /\ Highlighted'
                               = {j \in 0..(Len(EdgeHandles) - 1) :
                                      {EdgeHandles[j + 1][1],
                                       EdgeHandles[j + 1][2]} \in group}
                        /\ selectedElements'.vertices
                               = selectedElements.vertices
                        /\ selectedElements'.faces
                               = selectedElements.faces]_vars

\* one call of a resolution change, which replaces the geometry
Rebuild ==
    \E n \in VertexCounts :
        UpdateCylinderVertices(n) \/ UpdateSphereVertices(n)

\* C23: every updateVertexDrag / updateEdgeDrag that runs with its session
\* open on a mesh marks, in the same step, the position buffer of that mesh
\* dirty and recomputes its vertex normals; no step changes a position of
\* a geometry without both, so in every state the normals of every mesh
\* are those of its current positions.
C23_WritesRefreshNormals ==
    [][/\ \A t \in Targets :
              (/\ IsMesh(selectedObject)
               /\ \/ UpdateVertexDrag(t) /\ draggedVertex # NULL
                  \/ UpdateEdgeDrag(t) /\ draggedEdge # NULL)
                  => /\ dirty' = selectedObject
                     /\ normals'[selectedObject] = position'[selectedObject]
       /\ \A m \in Meshes :
              (position'[m] # position[m] /\ ~Rebuild)
                  => (dirty' = m /\ normals'[m] = position'[m])
       /\ \A m \in Meshes : normals'[m] = position'[m]]_vars

\* an edge drag has just moved the participants of its group on the
\* cylinder: the buffer is marked and the normals are those of the moved
\* positions
C23_Witness ==
    /\ dirty = "M1"
    /\ selectedObject = "M1"
    /\ draggedEdge # NULL
    /\ owner.edge = "M1"
    /\ draggedVertex = NULL
    /\ Len(draggedEdge[1].indices) >= 1
    /\ GetXYZ(position["M1"], draggedEdge[1].indices[1][1])
           # draggedEdge[1].positions[1]
    /\ normals["M1"] = position["M1"]

\* C24: the faces selection list is empty in every reachable state: no
\* operation of the store populates selectedElements.faces.
C24_FacesAlwaysEmpty == selectedElements.faces = <<>>

\* C25: in every reachable state with a mesh selected, every vertex index
\* held by an open drag session (draggedVertex.indices, both indices of
\* every pair of draggedEdge.indices) is an index of that mesh's current
\* position buffer, so that no update writes out of range.
C25_SessionIndicesValid ==
    IsMesh(selectedObject)
        => LET valid == DOMAIN position[selectedObject]
           IN /\ draggedVertex # NULL
                     => \A k \in 1..Len(draggedVertex[1].indices) :
                            draggedVertex[1].indices[k] \in valid
              /\ draggedEdge # NULL
                     => \A k \in 1..Len(draggedEdge[1].indices) :
                            /\ draggedEdge[1].indices[k][1] \in valid
                            /\ draggedEdge[1].indices[k][2] \in valid

\* the vertex indices an edge session holds
Participants(session) ==
    {session.indices[k][e] : k \in 1..Len(session.indices), e \in 1..2}

\* every position of every buffer is kept, except those of the selected
\* mesh at the indices of group
OnlyWritten(group) ==
    \A m \in Meshes :
        /\ DOMAIN position'[m] = DOMAIN position[m]
        /\ \A j \in DOMAIN position[m] :
               (m # selectedObject \/ j \notin group)
                   => position'[m][j] = position[m][j]

\* C26: updateVertexDrag and updateEdgeDrag write only the positions at the
\* vertex indices of the open session, in the buffer of the selected mesh:
\* the position of every other vertex, and every buffer of another mesh,
\* is unchanged by an update.
C26_UpdateFrame ==
    [][\A t \in Targets :
          /\ (UpdateVertexDrag(t) /\ draggedVertex # NULL
                  /\ IsMesh(selectedObject))
                 => OnlyWritten({draggedVertex[1].indices[k] :
                                     k \in 1..Len(draggedVertex[1].indices)})
          /\ (UpdateEdgeDrag(t) /\ draggedEdge # NULL
                  /\ IsMesh(selectedObject))
                 => OnlyWritten(Participants(draggedEdge[1]))]_vars

\* an update has just moved the group of vertex 0 of the cylinder onto the
\* target, and the vertices outside the group and the other mesh are where
\* they were created
C26_Witness ==
    /\ dirty = "M1"
    /\ selectedObject = "M1"
    /\ draggedVertex # NULL
    /\ owner.vertex = "M1"
    /\ draggedVertex[1].indices = <<0, 1>>
    /\ position["M1"][0] # InitialPosition("M1")[0]
    /\ position["M1"][0] = draggedVertex[1].position
    /\ position["M1"][1] = draggedVertex[1].position
    /\ position["M1"][3] = InitialPosition("M1")[3]
    /\ position["M2"] = InitialPosition("M2")

\* a call of startVertexDrag or startEdgeDrag either returns early or
\* counts as one more edit
EarlyReturnOrEdit == noop' \/ edits' = edits + 1

\* C27: startVertexDrag and startEdgeDrag never modify a position buffer:
\* opening a session changes the session record of its kind and the
\* selection list of the dragged element type, and nothing else of the
\* store.
C27_StartFrame ==
    [][/\ (/\ EarlyReturnOrEdit
           /\ \E i \in VertexHandles : StartVertexDrag(i, HandleVertex(i)))
              => /\ UNCHANGED <<position, normals, selectedObject, editMode,
                                draggedEdge>>
                 /\ selectedElements'.edges = selectedElements.edges
                 /\ selectedElements'.faces = selectedElements.faces
       /\ (/\ EarlyReturnOrEdit
           /\ \/ \E i \in EdgeClicks : EdgeHandleClick(i)
              \/ \E c \in EdgeCalls :
                     StartEdgeDragCall(c.vertexIndices, c.positions,
                                       c.edgeIndex))
              => /\ UNCHANGED <<position, normals, selectedObject, editMode,
                                draggedVertex>>
                 /\ selectedElements'.vertices = selectedElements.vertices
                 /\ selectedElements'.faces = selectedElements.faces]_vars

\* a vertex session and an edge session have been opened on the cylinder
\* and every buffer is as it was created: the vertices of the vertex group
\* are still one unit apart
C27_Witness ==
    /\ selectedObject = "M1"
    /\ edits = 2
    /\ draggedVertex # NULL
    /\ draggedEdge # NULL
    /\ owner = [vertex |-> "M1", edge |-> "M1"]
    /\ draggedVertex[1].indices = <<0, 1>>
    /\ Len(draggedEdge[1].indices) >= 1
    /\ position = [o \in Meshes |-> InitialPosition(o)]
    /\ DistSq(position["M1"][0], position["M1"][1]) = 1

\* the selected object is null or the object of a visible entry
SelectedIsVisible ==
    \/ selectedObject = NoObject
    \/ \E k \in 1..Len(objects) :
           objects[k].visible /\ objects[k].object = selectedObject

\* C28: under addObject, removeObject, toggleVisibility and selection by a
\* click on a rendered object, selectedObject is always null or the object
\* of a visible entry of the objects list, and removing or hiding the
\* entry of the selected object sets selectedObject to null.
C28_SelectedIsListedAndVisible ==
    [][/\ SelectedIsVisible'
       /\ \A id \in Ids :
              /\ (/\ RemoveObject(id)
                  /\ \E k \in 1..Len(objects) :
                         objects[k].id = id
                             /\ objects[k].object = selectedObject)
                     => selectedObject' = NoObject
              /\ (/\ ToggleVisibility(id)
                  /\ \E k \in 1..Len(objects) :
                         /\ objects[k].id = id
                         /\ objects[k].visible
                         /\ objects[k].object = selectedObject)
                     => selectedObject' = NoObject]_vars

\* the cylinder has been added twice; its first entry is hidden and it is
\* selected through its second, visible entry
C28_Witness ==
    /\ Len(objects) >= 2
    /\ objects[1].object = "M1"
    /\ ~objects[1].visible
    /\ objects[2].object = "M1"
    /\ objects[2].visible
    /\ selectedObject = "M1"

-----------------------------------------------------------------------------
(* Properties of the edge derivation, under SpecEdges *)

\* the unordered vertex pairs of a list of edges
PairSet(es) == {{es[k][1], es[k][2]} : k \in 1..Len(es)}

\* the unordered sides (a,b), (b,c), (c,a) of the triangles of an index list
SideSet(index) ==
    UNION {{{index[3 * t + 1], index[3 * t + 2]},
            {index[3 * t + 2], index[3 * t + 3]},
            {index[3 * t + 3], index[3 * t + 1]}} :
           t \in 0..((Len(index) \div 3) - 1)}

LoBelowHi(es) == \A k \in 1..Len(es) : es[k][1] < es[k][2]

NoPairTwice(es) ==
    \A j, k \in 1..Len(es) :
        j # k => {es[j][1], es[j][2]} # {es[k][1], es[k][2]}

\* two triangles on four vertices: a quad with one shared side
IsQuad(index) ==
    /\ Len(index) = 6
    /\ Cardinality({index[k] : k \in 1..6}) = 4

\* C8: for every triangle index list, every edge of the derived edge set
\* (either version of EdgeLines) is a pair (lo, hi) with lo < hi
\* numerically, and no unordered vertex pair appears twice in the set.
C8_CanonicalEdges ==
    pc = "derived" =>
        /\ LoBelowHi(uniqueEdges) /\ NoPairTwice(uniqueEdges)
        /\ LoBelowHi(EdgePairs(edges)) /\ NoPairTwice(EdgePairs(edges))

\* what does hold of both versions: no unordered pair appears twice
C8_NoPairTwice ==
    pc = "derived" =>
        NoPairTwice(uniqueEdges) /\ NoPairTwice(EdgePairs(edges))

\* C9: the derived edge set is, as a set of unordered pairs, exactly the
\* set of sides of the triangles of the index list, each side once; a quad
\* of two triangles with one shared side yields exactly 5 edges.
C9_EdgesAreTheSides ==
    pc = "derived" =>
        /\ PairSet(uniqueEdges) = SideSet(tris)
        /\ Len(uniqueEdges) = Cardinality(SideSet(tris))
        /\ PairSet(EdgePairs(edges)) = SideSet(tris)
        /\ Len(edges) = Cardinality(SideSet(tris))
        /\ IsQuad(tris) => Len(uniqueEdges) = 5 /\ Len(edges) = 5

\* a quad has been derived: five edges from six sides
C9_Witness ==
    /\ pc = "derived"
    /\ tris = <<0, 1, 2, 0, 2, 3>>
    /\ Len(uniqueEdges) = 5
    /\ Len(edges) = 5

====
